---- MODULE Spec2Model ----
(***************************************************************************)
(* A model of backbone/linears.py: the truncated-normal initialiser, the   *)
(* plain, cosine and split-cosine classifier heads, the proxy reduction    *)
(* and the growable multi-head classifier SimpleContinualLinear.           *)
(*                                                                         *)
(* Tensors are modelled with batch size 1: a row of logits is a sequence.  *)
(* Each class of the file has its own specification (SpecTN, SpecSL,       *)
(* SpecCos, SpecCL); the variables of the other classes stay at their idle *)
(* values there.                                                           *)
(***************************************************************************)
EXTENDS Integers, Sequences, FiniteSets, TLC

VARIABLES
    \* trunc_normal_; tn_first, tn_writes and tn_redrawn are ghosts
    tn_pc, tn_a, tn_b, tn_tensor, tn_tmp, tn_cond, tn_first, tn_writes, tn_redrawn,
    \* SimpleLinear
    sl_pc, sl_args, sl_weight, sl_bias, sl_logits,
    \* CosineLinear, SplitCosineLinear and a direct call of reduce_proxies
    cos_kind, cos_args, cos_w1, cos_w2, cos_sigma, cos_res,
    \* SimpleContinualLinear: its fields, the result of the last call (cl_last)
    \* and two ghosts: the class counts it was grown by (cl_hist) and the
    \* parameter values at the most recent backup (cl_saved)
    cl_cfg, cl_heads, cl_old, cl_last, cl_hist, cl_saved

clvars == <<cl_cfg, cl_heads, cl_old, cl_last, cl_hist, cl_saved>>
tnvars ==
    <<tn_pc, tn_a, tn_b, tn_tensor, tn_tmp, tn_cond, tn_first, tn_writes, tn_redrawn>>
slvars == <<sl_pc, sl_args, sl_weight, sl_bias, sl_logits>>
cosvars == <<cos_kind, cos_args, cos_w1, cos_w2, cos_sigma, cos_res>>
vars == <<tnvars, slvars, cosvars, clvars>>
\* the variables of the other classes, which an action leaves alone
notTN == <<slvars, cosvars, clvars>>
notSL == <<tnvars, cosvars, clvars>>
notCos == <<tnvars, slvars, clvars>>
notCL == <<tnvars, slvars, cosvars>>

\* ---------------------------------------------------------------- bounds
\* samples of normal_ are the integers 0 .. DrawMax
DrawMax == 3
\* number of elements of the tensor handed to trunc_normal_
TensorLen == 2
\* in_features and out_features of SimpleLinear range over 1 .. MaxIn, 1 .. MaxOut
MaxIn == 2
MaxOut == 2
\* a cosine classifier has at most MaxClasses classes (old and new together),
\* nb_proxy ranges over 1 .. MaxProxy, and sigma is trained to at most MaxSigma
MaxClasses == 3
MaxProxy == 2
MaxSigma == 2
\* a SimpleContinualLinear grows to at most MaxHeads heads
MaxHeads == 3

\* ------------------------------------------------------- SimpleLinear
\* an absent parameter (register_parameter(name, None)) and a present one
NoParam == [present |-> FALSE, data |-> <<>>]
Param(d) == [present |-> TRUE, data |-> d]

\* what torch.Tensor(...) leaves in freshly allocated memory, per element
GarbageValues == {0, 1}
\* the samples kaiming_uniform_ can put in an element
KaimingValues == {-1, 1}
\* the elements of an input row
InputValues == {0, 1}

Matrix(rows, cols, S) == [1 .. rows -> [1 .. cols -> S]]
Vector(n, S) == [1 .. n -> S]
Zeros(n) == [i \in 1 .. n |-> 0]

RECURSIVE Dot(_, _)
Dot(u, v) == IF u = <<>> THEN 0 ELSE Head(u) * Head(v) + Dot(Tail(u), Tail(v))

\* F.linear(input, weight, bias) on one input row; bias may be absent
Linear(x, w, b) ==
    [c \in DOMAIN w |-> Dot(x, w[c]) + (IF b.present THEN b.data[c] ELSE 0)]

SLIdle ==
    /\ sl_pc = "idle" /\ sl_args = <<>> /\ sl_weight = <<>>
    /\ sl_bias = NoParam /\ sl_logits = <<>>

\* the call SimpleLinear(in_features, out_features, bias)
SLInit ==
    /\ sl_pc = "alloc"
    /\ sl_args \in [in_features : 1 .. MaxIn, out_features : 1 .. MaxOut,
                    bias : BOOLEAN]
    /\ sl_weight = <<>>
    /\ sl_bias = NoParam
    /\ sl_logits = <<>>

\* lines 32-39: the weight, and the bias or register_parameter('bias', None)
SLAlloc ==
    /\ sl_pc = "alloc"
    /\ sl_weight' \in Matrix(sl_args.out_features, sl_args.in_features, GarbageValues)
    /\ IF sl_args.bias
          THEN \E g \in Vector(sl_args.out_features, GarbageValues) :
                  sl_bias' = Param(g)
          ELSE sl_bias' = NoParam
    /\ sl_pc' = "reset_weight"
    /\ UNCHANGED <<sl_args, sl_logits, notSL>>

\* line 43: nn.init.kaiming_uniform_(self.weight, nonlinearity='linear')
SLResetWeight ==
    /\ sl_pc = "reset_weight"
    /\ sl_weight' \in Matrix(sl_args.out_features, sl_args.in_features, KaimingValues)
    /\ sl_pc' = "reset_bias"
    /\ UNCHANGED <<sl_args, sl_bias, sl_logits, notSL>>

\* nn.init.constant_(tensor, 0) fills the tensor; on None it raises
ConstantRaises(b) == ~b.present

\* line 44: nn.init.constant_(self.bias, 0), whether or not there is a bias
SLResetBias ==
    /\ sl_pc = "reset_bias"
    /\ IF ConstantRaises(sl_bias)
          THEN sl_pc' = "error" /\ sl_bias' = sl_bias
          ELSE sl_pc' = "ready" /\ sl_bias' = Param(Zeros(sl_args.out_features))
    /\ UNCHANGED <<sl_args, sl_weight, sl_logits, notSL>>

\* lines 46-47: forward(input)
SLForward ==
    /\ sl_pc = "ready"
    /\ \E x \in Vector(sl_args.in_features, InputValues) :
          sl_logits' = Linear(x, sl_weight, sl_bias)
    /\ UNCHANGED <<sl_pc, sl_args, sl_weight, sl_bias, notSL>>

\* ------------------------------- CosineLinear, SplitCosineLinear, reduce_proxies
\* The cosine classifiers are modelled with in_features = 1, where
\* F.normalize(v, p=2, dim=1) is the sign of v; a score is a rational
\* <<numerator, denominator>>.
Sign(v) == IF v > 0 THEN 1 ELSE IF v < 0 THEN -1 ELSE 0

\* the signs uniform_(-stdv, stdv) can give a weight row
CosWeightValues == {-1, 1}
CosInputValues == {-1, 1}

\* self.out_features of CosineLinear: the rows of its weight
CosRowsNoProxy(out_features, nb_proxy) == out_features
CosRows(out_features, nb_proxy) == out_features * nb_proxy

\* F.linear(F.normalize(input), F.normalize(self.weight)) on one input row
CosScores(x, w) == [k \in DOMAIN w |-> <<Sign(x) * Sign(w[k]), 1>>]

\* self.sigma * out
Scale(sig, out) == [k \in DOMAIN out |-> <<sig * out[k][1], out[k][2]>>]

\* The softmax-weighted sum of one class's proxies; the weight of a proxy
\* with score s is 2^(s+1) in place of e^s.
SoftmaxWeight(s) == IF s[1] > 0 THEN 4 ELSE IF s[1] = 0 THEN 2 ELSE 1
RECURSIVE WeightedSum(_)
WeightedSum(g) ==
    IF g = <<>> THEN <<0, 0>>
    ELSE LET r == WeightedSum(Tail(g))
         IN  <<SoftmaxWeight(Head(g)) * Head(g)[1] + r[1],
               SoftmaxWeight(Head(g)) + r[2]>>

\* out.view(bs, nb_classes, nb_proxy): class c holds nb_proxy consecutive columns
ProxyGroupStrideOne(out, c, nb_proxy) == SubSeq(out, c, c + nb_proxy - 1)
ProxyGroup(out, c, nb_proxy) == SubSeq(out, (c - 1) * nb_proxy + 1, c * nb_proxy)

\* lines 115-126; raised is the failure of the 'Shape error' assertion
ReduceProxies(out, nb_proxy) ==
    IF nb_proxy = 1 THEN [raised |-> FALSE, val |-> out]
    ELSE IF Len(out) % nb_proxy # 0 THEN [raised |-> TRUE, val |-> <<>>]
    ELSE [raised |-> FALSE,
          val |-> [c \in 1 .. (Len(out) \div nb_proxy) |->
                      WeightedSum(ProxyGroup(out, c, nb_proxy))]]

\* one call of reduce_proxies, as the forward passes record it
RPCall(out, nb_proxy) ==
    [in |-> out, nb_proxy |-> nb_proxy, res |-> ReduceProxies(out, nb_proxy)]

NoResult ==
    [called |-> FALSE, raised |-> FALSE, logits |-> <<>>, old_scores |-> <<>>,
     new_scores |-> <<>>, rp |-> <<>>]

\* lines 70-80: CosineLinear.forward
CosineForward(x, w, nb_proxy, to_reduce, sigma) ==
    LET out == CosScores(x, w)
        rp  == IF to_reduce THEN <<RPCall(out, nb_proxy)>> ELSE <<>>
        red == IF to_reduce THEN rp[1].res.val ELSE out
    IN  IF to_reduce /\ rp[1].res.raised
        THEN [NoResult EXCEPT !.called = TRUE, !.raised = TRUE, !.rp = rp]
        ELSE [NoResult EXCEPT !.called = TRUE, !.rp = rp,
                 !.logits = IF sigma.present THEN Scale(sigma.data, red) ELSE red]

\* lines 97-113: SplitCosineLinear.forward; fc1 and fc2 are CosineLinear
\* modules built with to_reduce=False and sigma=False
SplitForward(x, w1, w2, nb_proxy, sigma) ==
    LET out1 == CosineForward(x, w1, nb_proxy, FALSE, NoParam)
        out2 == CosineForward(x, w2, nb_proxy, FALSE, NoParam)
        cat  == out1.logits \o out2.logits
        all  == RPCall(cat, nb_proxy)
        old  == RPCall(out1.logits, nb_proxy)
        new  == RPCall(out2.logits, nb_proxy)
    IN  IF all.res.raised
        THEN [NoResult EXCEPT !.called = TRUE, !.raised = TRUE, !.rp = <<all>>]
        ELSE IF old.res.raised
        THEN [NoResult EXCEPT !.called = TRUE, !.raised = TRUE, !.rp = <<all, old>>]
        ELSE IF new.res.raised
        THEN [NoResult EXCEPT !.called = TRUE, !.raised = TRUE,
                              !.rp = <<all, old, new>>]
        ELSE [called |-> TRUE, raised |-> FALSE,
              logits |-> IF sigma.present THEN Scale(sigma.data, all.res.val)
                                          ELSE all.res.val,
              old_scores |-> old.res.val,
              new_scores |-> new.res.val,
              rp |-> <<all, old, new>>]

CosIdle ==
    /\ cos_kind = "idle" /\ cos_args = <<>> /\ cos_w1 = <<>> /\ cos_w2 = <<>>
    /\ cos_sigma = NoParam /\ cos_res = NoResult

\* lines 51-68: a constructed CosineLinear(1, out_features, nb_proxy, to_reduce, sigma)
CosineInit ==
    /\ cos_kind = "CosineLinear"
    /\ cos_args \in [out_features1 : 1 .. MaxClasses, out_features2 : {0},
                     nb_proxy : 1 .. MaxProxy, to_reduce : BOOLEAN, sigma : BOOLEAN]
    /\ cos_w1 \in Vector(CosRows(cos_args.out_features1, cos_args.nb_proxy),
                         CosWeightValues)
    /\ cos_w2 = <<>>
    /\ cos_sigma = IF cos_args.sigma THEN Param(1) ELSE NoParam
    /\ cos_res = NoResult

\* lines 84-95: a constructed SplitCosineLinear(1, out_features1, out_features2,
\* nb_proxy, sigma)
SplitInit ==
    /\ cos_kind = "SplitCosineLinear"
    /\ cos_args \in [out_features1 : 1 .. MaxClasses, out_features2 : 1 .. MaxClasses,
                     nb_proxy : 1 .. MaxProxy, to_reduce : {FALSE}, sigma : BOOLEAN]
    /\ cos_args.out_features1 + cos_args.out_features2 <= MaxClasses
    /\ cos_w1 \in Vector(CosRows(cos_args.out_features1, cos_args.nb_proxy),
                         CosWeightValues)
    /\ cos_w2 \in Vector(CosRows(cos_args.out_features2, cos_args.nb_proxy),
                         CosWeightValues)
    /\ cos_sigma = IF cos_args.sigma THEN Param(1) ELSE NoParam
    /\ cos_res = NoResult

\* a caller about to hand reduce_proxies a row of any width (kept in cos_w1)
DirectInit ==
    /\ cos_kind = "reduce_proxies"
    /\ cos_args \in [out_features1 : {0}, out_features2 : {0},
                     nb_proxy : 1 .. MaxProxy, to_reduce : {TRUE}, sigma : {FALSE}]
    /\ \E width \in 1 .. (MaxClasses * MaxProxy) :
          cos_w1 \in Vector(width, CosWeightValues)
    /\ cos_w2 = <<>>
    /\ cos_sigma = NoParam
    /\ cos_res = NoResult

\* a training step moves sigma, the learnable scale; the output of the
\* forward pass before it is dropped
CosTrainSigma ==
    /\ cos_kind \in {"CosineLinear", "SplitCosineLinear"}
    /\ cos_sigma.present
    /\ \E v \in 1 .. MaxSigma : v # cos_sigma.data /\ cos_sigma' = Param(v)
    /\ cos_res' = NoResult
    /\ UNCHANGED <<cos_kind, cos_args, cos_w1, cos_w2, notCos>>

CosineLinearForward ==
    /\ cos_kind = "CosineLinear"
    /\ \E x \in CosInputValues :
          cos_res' = CosineForward(x, cos_w1, cos_args.nb_proxy, cos_args.to_reduce,
                                   cos_sigma)
    /\ UNCHANGED <<cos_kind, cos_args, cos_w1, cos_w2, cos_sigma, notCos>>

SplitCosineLinearForward ==
    /\ cos_kind = "SplitCosineLinear"
    /\ \E x \in CosInputValues :
          cos_res' = SplitForward(x, cos_w1, cos_w2, cos_args.nb_proxy, cos_sigma)
    /\ UNCHANGED <<cos_kind, cos_args, cos_w1, cos_w2, cos_sigma, notCos>>

\* reduce_proxies(out, nb_proxy) called on its own
DirectReduce ==
    /\ cos_kind = "reduce_proxies"
    /\ ~cos_res.called
    /\ LET call == RPCall(CosScores(1, cos_w1), cos_args.nb_proxy)
       IN  cos_res' = [NoResult EXCEPT !.called = TRUE, !.raised = call.res.raised,
                                       !.logits = call.res.val, !.rp = <<call>>]
    /\ UNCHANGED <<cos_kind, cos_args, cos_w1, cos_w2, cos_sigma, notCos>>

\* ------------------------------------------------------- trunc_normal_
Draws == 0 .. DrawMax
Index == 1 .. TensorLen
\* the (a, b) bounds the initialiser is called with; <<2, 1>> is an empty range
Bounds == {<<1, 2>>, <<0, 1>>, <<1, 1>>, <<2, 1>>}

\* (tmp < a) | (tmp > b), elementwise
OutOfRange(v, a, b) == (v < a) \/ (v > b)
Cond(t, a, b) == [i \in DOMAIN t |-> OutOfRange(t[i], a, b)]

\* torch.sum(cond): the number of elements set
RECURSIVE SumCond(_)
SumCond(c) == IF c = <<>> THEN 0
              ELSE (IF Head(c) THEN 1 ELSE 0) + SumCond(Tail(c))

\* torch.where(cond, fresh, tmp)
WhereAll(c, fresh, t) == fresh
Where(c, fresh, t) == [i \in DOMAIN t |-> IF c[i] THEN fresh[i] ELSE t[i]]

\* torch.empty_like(tensor).normal_(): a sample for every element; the
\* samples at the positions where() does not read are immaterial and fixed
\* at 0
FreshFor(c) == {f \in [DOMAIN c -> Draws] : \A i \in DOMAIN c : ~c[i] => f[i] = 0}

\* ghost: the first value of tmp[i] that fell inside [a, b], as <<v>>; <<>>
\* while there has been none
NoteFirst(first, t, a, b) ==
    [i \in DOMAIN t |->
        IF first[i] = <<>> /\ ~OutOfRange(t[i], a, b) THEN <<t[i]>> ELSE first[i]]

TNIdle ==
    /\ tn_pc = "idle" /\ tn_a = 0 /\ tn_b = 0 /\ tn_tensor = <<>>
    /\ tn_tmp = <<>> /\ tn_cond = <<>> /\ tn_first = <<>> /\ tn_writes = 0
    /\ tn_redrawn = FALSE

\* the call trunc_normal_(tensor, mean, std, a, b); the tensor holds what its
\* allocation left in it
TNInit ==
    /\ tn_pc = "draw"
    /\ \E ab \in Bounds : tn_a = ab[1] /\ tn_b = ab[2]
    /\ \E v \in {0, DrawMax} : tn_tensor = [i \in Index |-> v]
    /\ tn_tmp = <<>>
    /\ tn_cond = <<>>
    /\ tn_first = [i \in Index |-> <<>>]
    /\ tn_writes = 0
    /\ tn_redrawn = FALSE

\* line 17: tmp = torch.empty_like(tensor).normal_(mean, std)
TNDraw ==
    /\ tn_pc = "draw"
    /\ \E fresh \in [Index -> Draws] :
          /\ tn_tmp' = fresh
          /\ tn_first' = NoteFirst(tn_first, fresh, tn_a, tn_b)
    /\ tn_pc' = "cond"
    /\ UNCHANGED <<tn_a, tn_b, tn_tensor, tn_cond, tn_writes, tn_redrawn,
                   notTN>>

\* lines 19-21: cond = (tmp < a) | (tmp > b); if not torch.sum(cond): break
TNTest ==
    /\ tn_pc = "cond"
    /\ tn_cond' = Cond(tn_tmp, tn_a, tn_b)
    /\ tn_pc' = IF SumCond(Cond(tn_tmp, tn_a, tn_b)) = 0 THEN "copy" ELSE "redraw"
    /\ UNCHANGED <<tn_a, tn_b, tn_tensor, tn_tmp, tn_first, tn_writes,
                   tn_redrawn, notTN>>

\* line 22: tmp = torch.where(cond, torch.empty_like(tensor).normal_(), tmp)
TNRedraw ==
    /\ tn_pc = "redraw"
    /\ \E fresh \in FreshFor(tn_cond) :
          /\ tn_tmp' = Where(tn_cond, fresh, tn_tmp)
          /\ tn_first' = NoteFirst(tn_first, Where(tn_cond, fresh, tn_tmp), tn_a, tn_b)
    /\ tn_redrawn' = TRUE
    /\ tn_pc' = "cond"
    /\ UNCHANGED <<tn_a, tn_b, tn_tensor, tn_cond, tn_writes, notTN>>

\* lines 23-24: tensor.copy_(tmp); return tensor
TNCopy ==
    /\ tn_pc = "copy"
    /\ tn_tensor' = tn_tmp
    /\ tn_writes' = tn_writes + 1
    /\ tn_pc' = "done"
    /\ UNCHANGED <<tn_a, tn_b, tn_tmp, tn_cond, tn_first, tn_redrawn, notTN>>

\* the values trunc_normal_ can leave in an element with the default bounds
\* a = -2, b = 2
TruncNormalValues == {v \in Draws : ~OutOfRange(v, -2, 2)}

\* ------------------------------------------------- SimpleContinualLinear
\* The module is modelled with embed_dim = 1 and every parameter tensor filled
\* with one value (data). A head is [nb_classes, created, params], params
\* mapping the names of the head's parameters inside its nn.Sequential to
\* [data, requires_grad], and created a ghost: the head is the created-th the
\* module made. The state_dict key of parameter name of head i is <<i, name>>
\* (heads.<i-1>.<name> in the code).
ParamNames(with_norm) ==
    IF with_norm THEN {"0.weight", "0.bias", "1.weight", "1.bias"}
                 ELSE {"0.weight", "0.bias"}
\* the nn.Linear is the last module of the head
LinearWeight(with_norm) == IF with_norm THEN "1.weight" ELSE "0.weight"
LinearBias(with_norm) == IF with_norm THEN "1.bias" ELSE "0.bias"

\* the class counts the module is constructed with and grown by
ClassCounts == {1, 2}

\* the sample trunc_normal_(weight, std=.02) leaves in a new weight
InitWeights == {v \in TruncNormalValues : v = 1}
\* the value an in-place write (an optimiser step) leaves in a parameter
TrainedValues == {2}

\* a fresh nn.Parameter: trainable
NewParam(v) == [data |-> v, requires_grad |-> TRUE]

\* lines 159-167 (and 136-150): [LayerNorm(embed_dim),] Linear(embed_dim,
\* nb_classes) with the weight from trunc_normal_ and the bias 0; LayerNorm
\* starts with weight 1 and bias 0
NewHead(nb_classes, with_norm, w, created) ==
    [nb_classes |-> nb_classes,
     created |-> created,
     params |-> [name \in ParamNames(with_norm) |->
                    IF name = LinearWeight(with_norm) THEN NewParam(w)
                    ELSE IF name = LinearBias(with_norm) THEN NewParam(0)
                    ELSE IF name = "0.weight" THEN NewParam(1)
                    ELSE NewParam(0)]]

\* lines 169-171: for p in self.heads.parameters(): p.requires_grad = False
FreezeLast(heads) ==
    [i \in DOMAIN heads |->
        IF i < Len(heads) THEN heads[i]
        ELSE [heads[i] EXCEPT !.params =
                 [name \in DOMAIN heads[i].params |->
                     [heads[i].params[name] EXCEPT !.requires_grad = FALSE]]]]
Freeze(heads) ==
    [i \in DOMAIN heads |->
        [heads[i] EXCEPT !.params =
            [name \in DOMAIN heads[i].params |->
                [heads[i].params[name] EXCEPT !.requires_grad = FALSE]]]]

\* line 173: self.heads.append(new_head)
PrependHead(heads, head) == <<head>> \o heads
AppendHead(heads, head) == Append(heads, head)

Keys(heads) == {<<i, name>> : i \in DOMAIN heads, name \in ParamNames(cl_cfg.with_norm)}

\* self.state_dict(): each entry shares its storage with the live parameter
StateDict(heads) ==
    [k \in Keys(heads) |-> [alias |-> TRUE, data |-> heads[k[1]].params[k[2]].data]]

\* deepcopy(...): every entry gets storage of its own
ShallowCopy(sd) == sd
DeepCopy(sd) == [k \in DOMAIN sd |-> [alias |-> FALSE, data |-> sd[k].data]]

\* what an entry of a state dict holds when it is read
EntryValue(sd, k, heads) ==
    IF sd[k].alias THEN heads[k[1]].params[k[2]].data ELSE sd[k].data

\* param.copy_(input_param) under no_grad: the data changes, the flag stays
LoadParamFresh(p, v) == NewParam(v)
LoadParam(p, v) == [p EXCEPT !.data = v]

\* Module.load_state_dict(sd, strict=True): every parameter whose key is in
\* sd is copied from it, the keys on one side only are collected, and only
\* then is the error raised if there are any
LoadAtomic(heads, sd) ==
    LET ok == (Keys(heads) = DOMAIN sd)
    IN  [ok |-> ok,
         heads |-> IF ~ok THEN heads
                   ELSE [i \in DOMAIN heads |->
                           [heads[i] EXCEPT !.params =
                               [name \in DOMAIN heads[i].params |->
                                   LoadParam(heads[i].params[name],
                                             EntryValue(sd, <<i, name>>, heads))]]]]
LoadStateDict(heads, sd) ==
    LET missing    == Keys(heads) \ DOMAIN sd
        unexpected == DOMAIN sd \ Keys(heads)
    IN  [ok |-> (missing = {} /\ unexpected = {}),
         heads |-> [i \in DOMAIN heads |->
                     [heads[i] EXCEPT !.params =
                         [name \in DOMAIN heads[i].params |->
                             IF <<i, name>> \in DOMAIN sd
                             THEN LoadParam(heads[i].params[name],
                                            EntryValue(sd, <<i, name>>, heads))
                             ELSE heads[i].params[name]]]]]

\* nn.LayerNorm over one feature: the normalised input is 0
LayerNorm(inp, weight, bias) == 0 * weight + bias

\* one head applied to one input row: nb_classes logits
HeadForward(head, inp, with_norm) ==
    LET z == IF with_norm
             THEN LayerNorm(inp, head.params["0.weight"].data,
                            head.params["0.bias"].data)
             ELSE inp
    IN  [c \in 1 .. head.nb_classes |->
            head.params[LinearWeight(with_norm)].data * z
            + head.params[LinearBias(with_norm)].data]

\* line 178: fc_inp = x[ti] if self.feat_expand else x
FcInpFirst(x, ti, feat_expand) == IF feat_expand THEN x[1] ELSE x
FcInp(x, ti, feat_expand) == IF feat_expand THEN x[ti] ELSE x

\* lines 176-180: torch.cat of the heads' outputs, in the order of the heads
RECURSIVE ForwardFrom(_, _, _)
ForwardFrom(heads, x, ti) ==
    IF ti > Len(heads) THEN <<>>
    ELSE HeadForward(heads[ti], FcInp(x, ti, cl_cfg.feat_expand), cl_cfg.with_norm)
         \o ForwardFrom(heads, x, ti + 1)
Forward(heads, x) == ForwardFrom(heads, x, 1)

\* the inputs of forward: one feature row, or with feat_expand one row a head
ForwardInputs(heads) ==
    IF cl_cfg.feat_expand
    THEN {[i \in DOMAIN heads |-> i + 2], [i \in DOMAIN heads |-> Len(heads) + 3 - i]}
    ELSE {3, 4}

Last(op, ok) ==
    [op |-> op, ok |-> ok, freeze_old |-> FALSE, changed |-> FALSE, x |-> <<>>,
     logits |-> <<>>]

CLIdle ==
    /\ cl_cfg = <<>> /\ cl_heads = <<>> /\ cl_old = [present |-> FALSE, dict |-> <<>>]
    /\ cl_last = Last("idle", TRUE) /\ cl_hist = <<>> /\ cl_saved = <<>>

\* lines 130-150: SimpleContinualLinear(1, nb_classes, feat_expand, with_norm)
CLInit ==
    /\ cl_cfg \in [embed_dim : {1}, feat_expand : BOOLEAN, with_norm : BOOLEAN]
    /\ \E nb_classes \in ClassCounts, w \in InitWeights :
          /\ cl_heads = <<NewHead(nb_classes, cl_cfg.with_norm, w, 1)>>
          /\ cl_hist = <<nb_classes>>
    /\ cl_old = [present |-> FALSE, dict |-> <<>>]
    /\ cl_last = Last("init", TRUE)
    /\ cl_saved = <<>>

\* lines 152-153: backup()
CLBackup ==
    /\ cl_old' = [present |-> TRUE, dict |-> DeepCopy(StateDict(cl_heads))]
    /\ cl_saved' = [k \in Keys(cl_heads) |-> cl_heads[k[1]].params[k[2]].data]
    /\ cl_last' = Last("backup", TRUE)
    /\ UNCHANGED <<cl_cfg, cl_heads, cl_hist, notCL>>

\* lines 155-156: recall(); without a backup self.old_state_dict does not exist
CLRecall ==
    /\ IF ~cl_old.present
       THEN /\ cl_heads' = cl_heads
            /\ cl_last' = Last("recall", FALSE)
       ELSE LET r == LoadStateDict(cl_heads, cl_old.dict)
            IN  /\ cl_heads' = r.heads
                /\ cl_last' = [Last("recall", r.ok) EXCEPT
                                  !.changed = (r.heads # cl_heads)]
    /\ UNCHANGED <<cl_cfg, cl_old, cl_hist, cl_saved, notCL>>

\* lines 158-173: update(nb_classes, freeze_old)
CLUpdate(nb_classes, freeze_old) ==
    /\ Len(cl_heads) < MaxHeads
    /\ \E w \in InitWeights :
          cl_heads' = AppendHead(IF freeze_old THEN Freeze(cl_heads) ELSE cl_heads,
                                 NewHead(nb_classes, cl_cfg.with_norm, w, Len(cl_hist) + 1))
    /\ cl_hist' = Append(cl_hist, nb_classes)
    /\ cl_last' = [Last("update", TRUE) EXCEPT !.freeze_old = freeze_old]
    /\ UNCHANGED <<cl_cfg, cl_old, cl_saved, notCL>>

\* lines 175-181: forward(x); cl_last.x holds the argument as <<x>>
CLForward ==
    /\ \E x \in ForwardInputs(cl_heads) :
          cl_last' = [Last("forward", TRUE) EXCEPT !.x = <<x>>,
                                                   !.logits = Forward(cl_heads, x)]
    /\ UNCHANGED <<cl_cfg, cl_heads, cl_old, cl_hist, cl_saved, notCL>>

\* an in-place write to the parameters of head i: an optimiser step, or any
\* other caller writing parameter data
CLWrite(i) ==
    /\ i \in DOMAIN cl_heads
    /\ \E v \in TrainedValues :
          cl_heads' = [cl_heads EXCEPT ![i].params =
                          [name \in DOMAIN cl_heads[i].params |->
                              [cl_heads[i].params[name] EXCEPT !.data = v]]]
    /\ cl_last' = Last("write", TRUE)
    /\ UNCHANGED <<cl_cfg, cl_old, cl_hist, cl_saved, notCL>>

\* ------------------------------------------------------ specifications
SLNext == SLAlloc \/ SLResetWeight \/ SLResetBias \/ SLForward

InitSL == SLInit /\ TNIdle /\ CosIdle /\ CLIdle
SpecSL == InitSL /\ [][SLNext]_vars

CosNext ==
    CosTrainSigma \/ CosineLinearForward \/ SplitCosineLinearForward \/ DirectReduce

InitCos == (CosineInit \/ SplitInit \/ DirectInit) /\ TNIdle /\ SLIdle /\ CLIdle
SpecCos == InitCos /\ [][CosNext]_vars

CLNext ==
    \/ CLBackup
    \/ CLRecall
    \/ \E nb_classes \in ClassCounts, freeze_old \in BOOLEAN :
          CLUpdate(nb_classes, freeze_old)
    \/ CLForward
    \/ \E i \in 1 .. MaxHeads : CLWrite(i)

InitCL == CLInit /\ TNIdle /\ SLIdle /\ CosIdle
SpecCL == InitCL /\ [][CLNext]_vars

TNNext == TNDraw \/ TNTest \/ TNRedraw \/ TNCopy

InitTN == TNInit /\ SLIdle /\ CosIdle /\ CLIdle
SpecTN == InitTN /\ [][TNNext]_vars

\* Every redraw of an element eventually lands in [a, b], and an element
\* inside the bounds stays there: a round that leaves every element inside
\* the bounds is taken if it is possible again and again.
FairSpecTN ==
    /\ SpecTN
    /\ WF_vars(TNDraw) /\ WF_vars(TNTest) /\ WF_vars(TNCopy)
    /\ SF_vars(TNRedraw /\ \A i \in Index : ~OutOfRange(tn_tmp'[i], tn_a, tn_b))

\* ------------------------------------------------------- C1 .. C6
RECURSIVE Sum(_)
Sum(q) == IF q = <<>> THEN 0 ELSE Head(q) + Sum(Tail(q))

\* the number of logit columns before those of the i-th head, from the class
\* counts the module was constructed with and grown by
OffsetOf(counts, i) == Sum(SubSeq(counts, 1, i - 1))

Data(heads, i, name) == heads[i].params[name].data
Trainable(heads, i, name) == heads[i].params[name].requires_grad
Names == ParamNames(cl_cfg.with_norm)

\* C1: after construction with n0 classes and k updates by n_1 .. n_k, among
\* any backups and recalls, the module holds k+1 heads in creation order and
\* forward returns logits of width n0 + .. + n_k in which head i's columns
\* start at offset n0 + .. + n_(i-1) and are computed from x[i] with
\* feat_expand and from the shared x without.
C1_HeadsAndLogits ==
    /\ Len(cl_heads) = Len(cl_hist)
    /\ \A i \in DOMAIN cl_heads :
          cl_heads[i].created = i /\ cl_heads[i].nb_classes = cl_hist[i]
    /\ cl_last.op = "forward" =>
          /\ Len(cl_last.logits) = Sum(cl_hist)
          /\ \A i \in DOMAIN cl_hist : \A c \in 1 .. cl_hist[i] :
                cl_last.logits[OffsetOf(cl_hist, i) + c] =
                    HeadForward(cl_heads[i],
                                IF cl_cfg.feat_expand THEN cl_last.x[1][i]
                                                      ELSE cl_last.x[1],
                                cl_cfg.with_norm)[c]

\* forward on three heads of unequal widths, each fed its own row
C1_Witness ==
    /\ cl_last.op = "forward" /\ cl_cfg.feat_expand /\ ~cl_cfg.with_norm
    /\ cl_hist = <<2, 1, 2>>
    /\ cl_old.present
    /\ cl_last.logits[1] # cl_last.logits[3]

\* the step is an update(nb_classes, freeze_old)
IsUpdate(freeze_old) == \E nb_classes \in ClassCounts : CLUpdate(nb_classes, freeze_old)

C2_UpdateStep ==
    \A nb_classes \in ClassCounts, freeze_old \in BOOLEAN :
        CLUpdate(nb_classes, freeze_old) =>
            /\ Len(cl_heads') = Len(cl_heads) + 1
            /\ cl_heads'[Len(cl_heads')].created = Len(cl_heads')
            /\ cl_heads'[Len(cl_heads')].nb_classes = nb_classes
            /\ \A i \in DOMAIN cl_heads :
                  /\ cl_heads'[i].created = cl_heads[i].created
                  /\ cl_heads'[i].nb_classes = cl_heads[i].nb_classes
                  /\ OffsetOf([j \in DOMAIN cl_heads' |-> cl_heads'[j].nb_classes], i)
                        = OffsetOf([j \in DOMAIN cl_heads |-> cl_heads[j].nb_classes], i)
                  /\ \A name \in Names : Data(cl_heads', i, name) = Data(cl_heads, i, name)

\* C2: update, with either freeze_old, leaves the parameter values, the order
\* and the logit column range of every head it found unchanged, and appends
\* one new head at the end.
C2_UpdatePreserves == [][C2_UpdateStep]_vars

\* an update has just been appended to heads whose values had been written
C2_Witness ==
    /\ cl_last.op = "update" /\ Len(cl_heads) = 3
    /\ \E name \in Names : Data(cl_heads, 1, name) # Data(cl_heads, 2, name)

C3_UpdateStep ==
    \A freeze_old \in BOOLEAN :
        IsUpdate(freeze_old) =>
            /\ Len(cl_heads') = Len(cl_heads) + 1
            /\ \A name \in Names : Trainable(cl_heads', Len(cl_heads'), name)
            /\ \A i \in DOMAIN cl_heads : \A name \in Names :
                  Trainable(cl_heads', i, name) =
                      IF freeze_old THEN FALSE ELSE Trainable(cl_heads, i, name)

\* C3: right after update(n, freeze_old=True) no parameter of a head that
\* was there before is trainable and every parameter of the new head is;
\* right after update(n, freeze_old=False) every flag of the old heads is
\* what it was and the new head is trainable.
C3_SelectiveFreezing == [][C3_UpdateStep]_vars

\* update(n, freeze_old=False) has just met a frozen and a trainable head
C3_Witness ==
    /\ cl_last.op = "update" /\ ~cl_last.freeze_old /\ Len(cl_heads) = 3
    /\ \A name \in Names :
          ~Trainable(cl_heads, 1, name) /\ Trainable(cl_heads, 2, name)

\* C4: a recall that succeeds sets every parameter to its value at the most
\* recent backup, and the snapshot keeps those values whatever is written to
\* the parameters after the backup or after a recall.
C4_BackupRecall ==
    /\ (cl_last.op = "recall" /\ cl_last.ok) =>
          \A k \in Keys(cl_heads) : Data(cl_heads, k[1], k[2]) = cl_saved[k]
    /\ cl_old.present =>
          /\ DOMAIN cl_old.dict = DOMAIN cl_saved
          /\ \A k \in DOMAIN cl_old.dict :
                EntryValue(cl_old.dict, k, cl_heads) = cl_saved[k]
    /\ (cl_last.op = "recall" /\ cl_old.present
            /\ DOMAIN cl_old.dict = Keys(cl_heads)) => cl_last.ok

\* a recall has just undone writes made after the backup
C4_Witness == cl_last.op = "recall" /\ cl_last.ok /\ cl_last.changed

\* the heads the snapshot has entries for
InSnapshot(i) == \E name \in Names : <<i, name>> \in DOMAIN cl_old.dict

FlagsKept ==
    /\ Len(cl_heads') = Len(cl_heads)
    /\ \A i \in DOMAIN cl_heads :
          /\ cl_heads'[i].nb_classes = cl_heads[i].nb_classes
          /\ cl_heads'[i].created = cl_heads[i].created
          /\ \A name \in Names :
                Trainable(cl_heads', i, name) = Trainable(cl_heads, i, name)

C5_FailedRecallStep == (CLRecall /\ ~cl_last'.ok) => cl_heads' = cl_heads

\* C5 as stated: a recall that raises (no backup yet, or heads added since the
\* backup) leaves every parameter value, the number of heads and every
\* requires_grad flag as they were.
C5_FailedRecallLeavesModule == [][C5_FailedRecallStep]_vars

C5_AmendedStep ==
    CLRecall =>
        /\ cl_last'.ok = (cl_old.present /\ DOMAIN cl_old.dict = Keys(cl_heads))
        /\ ~cl_last'.ok =>
              /\ FlagsKept
              /\ ~cl_old.present => cl_heads' = cl_heads
              /\ cl_old.present =>
                    \A i \in DOMAIN cl_heads :
                        IF InSnapshot(i)
                        THEN \A name \in Names :
                                Data(cl_heads', i, name) = cl_saved[<<i, name>>]
                        ELSE cl_heads'[i] = cl_heads[i]

\* C5 amended: a recall raises exactly when there is no backup or heads were
\* added since the backup; it then leaves the number of heads and every
\* requires_grad flag as they were; without a backup the parameter values
\* stay too, but with heads added since the backup the error comes after the
\* copy: every head the snapshot holds gets the snapshot's values and only
\* the heads added since keep theirs.
C5_FailedRecallPartial == [][C5_AmendedStep]_vars

\* a recall has just raised after overwriting the heads of the snapshot
C5_Witness ==
    /\ cl_last.op = "recall" /\ ~cl_last.ok /\ cl_last.changed
    /\ Len(cl_heads) > 1

C6_Step ==
    \A i \in DOMAIN cl_heads : \A name \in Names :
        /\ ~Trainable(cl_heads, i, name) => ~Trainable(cl_heads', i, name)
        /\ (Trainable(cl_heads, i, name) /\ ~IsUpdate(TRUE)) =>
              Trainable(cl_heads', i, name)

\* C6: no update, backup or recall makes a frozen parameter trainable again,
\* and a trainable parameter stays trainable through every step that is not
\* an update(freeze_old=True).
C6_FreezingPermanent == [][C6_Step]_vars

\* a recall has just succeeded on a module with a frozen and a trainable head
C6_Witness ==
    /\ cl_last.op = "recall" /\ cl_last.ok /\ cl_last.changed
    /\ Len(cl_heads) > 1
    /\ \A name \in Names :
          ~Trainable(cl_heads, 1, name) /\ Trainable(cl_heads, Len(cl_heads), name)

\* -------------------------------------------------------------- C7
\* C7: SplitCosineLinear.forward returns old_scores of width out_features1,
\* new_scores of width out_features2 and logits of width out_features1 +
\* out_features2, and logits is sigma times old_scores followed by
\* new_scores (that concatenation itself without sigma).
C7_SplitConsistent ==
    (cos_kind = "SplitCosineLinear" /\ cos_res.called) =>
        /\ ~cos_res.raised
        /\ Len(cos_res.old_scores) = cos_args.out_features1
        /\ Len(cos_res.new_scores) = cos_args.out_features2
        /\ Len(cos_res.logits) = cos_args.out_features1 + cos_args.out_features2
        /\ cos_res.logits =
              IF cos_sigma.present
              THEN Scale(cos_sigma.data, cos_res.old_scores \o cos_res.new_scores)
              ELSE cos_res.old_scores \o cos_res.new_scores

\* a forward pass with several proxies, unequal old and new class counts, a
\* trained sigma and scores that differ between the classes
C7_Witness ==
    /\ cos_kind = "SplitCosineLinear" /\ cos_res.called
    /\ cos_args.nb_proxy > 1
    /\ cos_args.out_features1 # cos_args.out_features2
    /\ cos_sigma.present /\ cos_sigma.data > 1
    /\ \E i, j \in DOMAIN cos_res.logits : cos_res.logits[i] # cos_res.logits[j]

\* -------------------------------------------------------------- C8
\* the class counts the forward pass reduces to, call by call
ExpectedClasses ==
    IF cos_kind = "CosineLinear" THEN <<cos_args.out_features1>>
    ELSE <<cos_args.out_features1 + cos_args.out_features2,
           cos_args.out_features1, cos_args.out_features2>>

\* C8: reached through CosineLinear.forward or SplitCosineLinear.forward,
\* reduce_proxies is handed a width that is a multiple of nb_proxy, never
\* fails its assertion, returns the class count as width and, with
\* nb_proxy = 1, its input unchanged; called directly with nb_proxy > 1 and a
\* width that is no multiple of nb_proxy it fails the assertion and returns
\* nothing.
C8_ShapeAssertion ==
    /\ (cos_kind \in {"CosineLinear", "SplitCosineLinear"} /\ cos_res.called) =>
          /\ ~cos_res.raised
          /\ cos_kind = "SplitCosineLinear" => Len(cos_res.rp) = 3
          /\ (cos_kind = "CosineLinear" /\ cos_args.to_reduce) => Len(cos_res.rp) = 1
          /\ \A k \in DOMAIN cos_res.rp :
                LET call == cos_res.rp[k]
                IN  /\ Len(call.in) % call.nb_proxy = 0
                    /\ ~call.res.raised
                    /\ Len(call.res.val) * call.nb_proxy = Len(call.in)
                    /\ Len(call.res.val) = ExpectedClasses[k]
                    /\ call.nb_proxy = 1 => call.res.val = call.in
    /\ (cos_kind = "reduce_proxies" /\ cos_res.called) =>
          LET call == cos_res.rp[1]
          IN  /\ (call.nb_proxy > 1 /\ Len(call.in) % call.nb_proxy # 0) =>
                    (cos_res.raised /\ cos_res.logits = <<>>)
              /\ call.nb_proxy = 1 => (~cos_res.raised /\ cos_res.logits = call.in)

\* a CosineLinear forward pass that reduced several proxies per class
C8_Witness ==
    /\ cos_kind = "CosineLinear" /\ cos_res.called /\ cos_args.to_reduce
    /\ cos_args.nb_proxy > 1 /\ cos_args.out_features1 > 1
    /\ Len(cos_res.logits) = cos_args.out_features1

\* ------------------------------------------------------------- C10
TNInBounds(t) == \A i \in DOMAIN t : ~OutOfRange(t[i], tn_a, tn_b)

TNReturned ==
    tn_pc = "done" =>
        /\ TNInBounds(tn_tensor)
        /\ \A i \in Index : tn_tensor[i] = tn_first[i][1]
        /\ tn_writes = 1

TNRoundStep ==
    /\ tn_pc = "redraw" =>
          \A i \in Index :
              ~OutOfRange(tn_tmp[i], tn_a, tn_b) => tn_tmp'[i] = tn_tmp[i]
    /\ tn_tensor' # tn_tensor => tn_pc = "copy"
    /\ tn_writes' # tn_writes => tn_pc = "copy"

\* C10: with a <= b and every redraw of an element eventually landing in
\* [a, b], trunc_normal_ returns; when it has returned every element of the
\* tensor lies in [a, b] and is the first draw of that element that fell
\* inside the bounds; a round redraws only the elements outside the bounds;
\* the tensor is written once, by the copy after the loop.
C10_TruncNormal ==
    /\ (tn_a <= tn_b) => <>(tn_pc = "done")
    /\ []TNReturned
    /\ [][TNRoundStep]_vars

\* trunc_normal_ has returned after at least one round of redraws
C10_Witness ==
    /\ tn_pc = "done" /\ tn_redrawn /\ tn_a < tn_b
    /\ \E i, j \in Index : tn_tensor[i] # tn_tensor[j]

\* -------------------------------------------------------------- C9
\* C9: SimpleLinear is constructed without error with bias=True and with
\* bias=False; with bias=True the bias is zero after construction, with
\* bias=False there is no bias parameter; forward returns logits of width
\* out_features.
C9_BothBiasSettings ==
    /\ sl_pc # "error"
    /\ sl_pc = "ready" =>
          IF sl_args.bias THEN sl_bias = Param(Zeros(sl_args.out_features))
                          ELSE sl_bias = NoParam
    /\ sl_logits # <<>> => Len(sl_logits) = sl_args.out_features

====
